---- MODULE Spec2Model ----
(***************************************************************************)
(* Model of the documentation converter of QIOToolkit:                     *)
(*   Stage A  doc/doxygen2docfx.py   (SAX handler building the items)      *)
(*   Stage B  doc/generate_xrefmap.py (cross-reference linker)             *)
(*   translate_path / camel2dashed   (output path of a compound)           *)
(*   convert(path)                   (Stage A parse, then the output files)*)
(*   ci/static_code_analysis/count_cppcheck_analysis.py (quality gate)     *)
(* Python str values are TLA+ strings; an optional value (a key that may   *)
(* be missing from a dict, an attribute that may be None) is <<>> when it  *)
(* is missing and <<v>> when it is set.                                    *)
(***************************************************************************)
EXTENDS Integers, Sequences, FiniteSets, TLC

VARIABLES
    \* translate_path
    tp_arg,      \* the path first handed to translate_path
    tp_results,  \* the successive results, each the translation of the previous
    \* Stage B, generate_xrefmap(paths)
    paths,       \* the argument: the record files, in command-line order
    snapshot,    \* the files as Stage A left them (path -> content), before any run
    disk,        \* the files now (path -> content)
    xreflist,    \* list of GlobalReference, in order of appearance
    xrefmap,     \* dict uid -> GlobalReference
    xrefmap_yml, \* content of xrefmap.yml once written
    pass,        \* "collect" (first loop), "rewrite" (second loop), "done"
    pathIdx,     \* position of the loop in paths
    firstRun,    \* what a first, completed run over the snapshot wrote
    \* Stage A, one convert(path): xml.sax driving a DocFxHandler
    doc,         \* the XML file being parsed
    pos,         \* the SAX event the parser delivers next
    stack,       \* DocFxHandler.stack: the handler nodes of the open elements
    items,       \* DocFxHandler.items: dict uid -> item
    keys,        \* the keys of DocFxHandler.items in insertion order
    calls,       \* the hooks run so far, each <<hook, obj of the node it ran on>>
    parse,       \* "parsing", "done" (end of document), "failed" (a handler raised)
    \* convert(path), after the parse
    conv_path,       \* the argument of convert
    filename,        \* the local filename of convert, None before it is assigned
    conv,            \* "parse", "split" (loop over namespace.items()), "write", "done", "failed"
    key_idx,         \* position of the loop in the keys of namespace
    namespace_name,  \* the local of that name
    files,           \* the files written: filename -> the items of its record
    opened,          \* the filenames opened for writing, in order
    \* TagHandler.add_content on a chain of nodes
    chain,       \* the nodes, chain[1] the root
    ac_call,     \* the last call: the node, the content and the chain before it
    \* the quality gate, main() of count_cppcheck_analysis.py
    report,             \* the report file: missing, or the severities of errors/error
    error_threshold,    \* args.error_threshold
    warning_threshold,  \* args.warning_threshold
    exit_code           \* what main returned, once it has

varsPath == <<tp_arg, tp_results>>
varsB == <<paths, snapshot, disk, xreflist, xrefmap, xrefmap_yml, pass, pathIdx, firstRun>>
varsA == <<doc, pos, stack, items, keys, calls, parse>>
varsConv == <<conv_path, filename, conv, key_idx, namespace_name, files, opened>>
varsChain == <<chain, ac_call>>
varsGate == <<report, error_threshold, warning_threshold, exit_code>>
varsRest == <<varsConv, varsChain, varsGate>>
vars == <<varsPath, varsB, varsA, varsRest>>

(***************************************************************************)
(* Strings                                                                 *)
(***************************************************************************)
None == <<>>
Some(v) == <<v>>
IsSet(o) == o # <<>>
Val(o) == o[1]

Char(s, i) == SubSeq(s, i, i)

\* the elements of a set of at most one element, as a list
SetToSeq(set) == IF set = {} THEN <<>> ELSE <<CHOOSE x \in set : TRUE>>

\* s has pat at position i
MatchesAt(s, pat, i) ==
    /\ i >= 1
    /\ i + Len(pat) - 1 <= Len(s)
    /\ SubSeq(s, i, i + Len(pat) - 1) = pat

Contains(s, pat) == \E i \in 1..Len(s) : MatchesAt(s, pat, i)

\* re.sub(pat, rep, s) for a pattern without metacharacters: every
\* non-overlapping occurrence, leftmost first
RECURSIVE ReplaceFrom(_, _, _, _)
ReplaceFrom(s, pat, rep, i) ==
    IF i > Len(s) THEN ""
    ELSE IF MatchesAt(s, pat, i)
         THEN rep \o ReplaceFrom(s, pat, rep, i + Len(pat))
         ELSE Char(s, i) \o ReplaceFrom(s, pat, rep, i + 1)

ReplaceAll(s, pat, rep) == ReplaceFrom(s, pat, rep, 1)

UpperLetters == "ABCDEFGHIJKLMNOPQRSTUVWXYZ"
LowerLetters == "abcdefghijklmnopqrstuvwxyz"

IsUpper(c) == \E i \in 1..Len(UpperLetters) : Char(UpperLetters, i) = c

\* str.lower() of one character
Lower(c) ==
    IF IsUpper(c)
    THEN Char(LowerLetters, CHOOSE i \in 1..Len(UpperLetters) : Char(UpperLetters, i) = c)
    ELSE c

\* str.strip(chars): drop the leading and trailing characters that are in chars
StripChars(s, chars) ==
    LET keep == {i \in 1..Len(s) : Char(s, i) \notin chars}
    IN  IF keep = {} THEN ""
        ELSE LET lo == CHOOSE i \in keep : \A j \in keep : i <= j
                 hi == CHOOSE i \in keep : \A j \in keep : j <= i
             IN  SubSeq(s, lo, hi)

Whitespace == {" ", "\t", "\n", "\r", "\f"}

\* str.strip()
Strip(s) == StripChars(s, Whitespace)

(***************************************************************************)
(* camel2dashed and DocFxHandler.translate_path                            *)
(***************************************************************************)
\* re.sub('[A-Z]+', lambda m: '-' + m.group(0).lower(), name): a dash goes
\* before each maximal run of capitals, and the run is lowered
RECURSIVE DashCapitals(_, _)
DashCapitals(name, i) ==
    IF i > Len(name) THEN ""
    ELSE LET c == Char(name, i)
             startsRun == IsUpper(c) /\ (i = 1 \/ ~IsUpper(Char(name, i - 1)))
         IN  (IF startsRun THEN "-" ELSE "") \o Lower(c) \o DashCapitals(name, i + 1)

camel2dashed(name) ==
    StripChars(ReplaceAll(DashCapitals(name, 1), "_-", "_"), {"-"})

DoxygenDir == "doxygen/xml/"
CompoundKinds == <<"struct", "class", "namespace">>

\* the positions where doxygen/xml/(struct|class|namespace) matches, with the
\* position right after the kind
KindAfter(path, i) ==
    {i + Len(DoxygenDir) + Len(CompoundKinds[k]) : k \in
        {k \in 1..Len(CompoundKinds) :
            MatchesAt(path, DoxygenDir \o CompoundKinds[k], i)}}

\* re.sub(r"doxygen/xml/(struct|class|namespace)(.*)\.xml", "\\2.yml", path):
\* the leftmost match, its (.*) running to the last ".xml" of the path, so
\* no second match follows it (paths hold no line break)
SubDoxygenXml(path) ==
    LET ends == {j \in 1..Len(path) : MatchesAt(path, ".xml", j)}
        starts == {i \in 1..Len(path) :
                      \E g \in KindAfter(path, i) : \E j \in ends : j >= g}
    IN  IF starts = {} THEN path
        ELSE LET i == CHOOSE x \in starts : \A y \in starts : x <= y
                 g == CHOOSE x \in KindAfter(path, i) : TRUE
                 j == CHOOSE x \in ends : \A y \in ends : y <= x
             IN  SubSeq(path, 1, i - 1) \o SubSeq(path, g, j - 1) \o ".yml"
                     \o SubSeq(path, j + Len(".xml"), Len(path))

\* translate_path without the api/ root
translate_path_NoRoot(path) ==
    LET p1 == SubDoxygenXml(path)
        p2 == ReplaceAll(p1, "1_1", "")
        p3 == IF MatchesAt(p2, "qiotoolkit_", 1)
              THEN ReplaceAll(p2, "qiotoolkit_", "")
              ELSE p2
    IN  ReplaceAll(camel2dashed(p3), "_", "/")

\* translate_path with the line left in the source as a comment,
\* re.sub("_", "/", path, 1): the first underscore only
translate_path_FirstUnderscore(path) ==
    LET p1 == SubDoxygenXml(path)
        p2 == ReplaceAll(p1, "1_1", "")
        p3 == IF MatchesAt(p2, "qiotoolkit_", 1)
              THEN ReplaceAll(p2, "qiotoolkit_", "")
              ELSE p2
        p4 == camel2dashed(p3)
        at == {i \in 1..Len(p4) : Char(p4, i) = "_"}
    IN  IF at = {} THEN "api/" \o p4
        ELSE LET i == CHOOSE x \in at : \A y \in at : x <= y
             IN  "api/" \o SubSeq(p4, 1, i - 1) \o "/" \o SubSeq(p4, i + 1, Len(p4))

translate_path(path) ==
    LET p1 == SubDoxygenXml(path)
        p2 == ReplaceAll(p1, "1_1", "")
        p3 == IF MatchesAt(p2, "qiotoolkit_", 1)
              THEN ReplaceAll(p2, "qiotoolkit_", "")
              ELSE p2
        p4 == camel2dashed(p3)
        p5 == ReplaceAll(p4, "_", "/")
    IN  "api/" \o p5

(***************************************************************************)
(* Stage B: generate_xrefmap                                               *)
(* A record file holds content = [items, references]; an item is the       *)
(* mapping Stage A dumped: uid, name, fullName and inheritance stand for   *)
(* the keys Stage B reads or leaves alone, parent, children and            *)
(* inheritedMembers are the keys it rewrites.                              *)
(***************************************************************************)
\* re.match(r"(^|.*/)toc\.yml$", path)
IsToc(path) ==
    \/ path = "toc.yml"
    \/ /\ Len(path) > Len("/toc.yml")
       /\ MatchesAt(path, "/toc.yml", Len(path) - Len("/toc.yml") + 1)

\* re.sub('.yml', '.html', path): the dot of the pattern is unescaped and
\* stands for any character but a line break
RECURSIVE SubAnyYml(_, _)
SubAnyYml(path, i) ==
    IF i > Len(path) THEN ""
    ELSE IF Char(path, i) # "\n" /\ MatchesAt(path, "yml", i + 1)
         THEN ".html" \o SubAnyYml(path, i + 1 + Len("yml"))
         ELSE Char(path, i) \o SubAnyYml(path, i + 1)

\* the OrderedDict ref built for one item of the file at path
GlobalReference(item, path) ==
    [uid |-> item.uid,
     name |-> item.name,
     href |-> "/" \o SubAnyYml(path, 1),
     fullName |-> item.fullName]

\* dict assignment d[key] = value
DictSet(d, key, value) ==
    [k \in DOMAIN d \cup {key} |-> IF k = key THEN value ELSE d[k]]

\* first loop, one file: xreflist += [ref]; xrefmap[item['uid']] = ref, item by item
RECURSIVE CollectList(_, _, _, _)
CollectList(list, loaded, path, i) ==
    IF i > Len(loaded) THEN list
    ELSE CollectList(Append(list, GlobalReference(loaded[i], path)), loaded, path, i + 1)

RECURSIVE CollectMap(_, _, _, _)
CollectMap(map, loaded, path, i) ==
    IF i > Len(loaded) THEN map
    ELSE CollectMap(DictSet(map, loaded[i].uid, GlobalReference(loaded[i], path)),
                    loaded, path, i + 1)

Range(seq) == {seq[i] : i \in 1..Len(seq)}

\* InMap keeping only the first occurrence of each uid
RECURSIVE InMap_Unique(_, _)
InMap_Unique(uids, map) ==
    IF uids = <<>> THEN <<>>
    ELSE LET before == InMap_Unique(SubSeq(uids, 1, Len(uids) - 1), map)
             last == uids[Len(uids)]
         IN  IF last \in DOMAIN map /\ last \notin Range(before)
             THEN Append(before, last)
             ELSE before

\* [c for c in uids if c in xrefmap]
InMap(uids, map) == SelectSeq(uids, LAMBDA c : c \in DOMAIN map)

\* PruneItem filtering inheritance as it filters children
PruneItem_Inheritance(item, map) ==
    [item EXCEPT
        !.parent = IF IsSet(@) /\ Val(@) \notin DOMAIN map THEN None ELSE @,
        !.children = IF IsSet(@) THEN Some(InMap(Val(@), map)) ELSE @,
        !.inheritedMembers = IF IsSet(@) THEN Some(InMap(Val(@), map)) ELSE @,
        !.inheritance = IF IsSet(@) THEN Some(InMap(Val(@), map)) ELSE @]

\* second loop, the body for one item: the parent is deleted when it is not
\* in xrefmap, children and inheritedMembers are filtered when present
PruneItem(item, map) ==
    [item EXCEPT
        !.parent = IF IsSet(@) /\ Val(@) \notin DOMAIN map THEN None ELSE @,
        !.children = IF IsSet(@) THEN Some(InMap(Val(@), map)) ELSE @,
        !.inheritedMembers = IF IsSet(@) THEN Some(InMap(Val(@), map)) ELSE @]

\* ReferencedBy leaving the parent out
ReferencedBy_NoParent(item) ==
    (IF IsSet(item.children) THEN Range(Val(item.children)) ELSE {})
        \cup (IF IsSet(item.inheritedMembers) THEN Range(Val(item.inheritedMembers)) ELSE {})

\* what the body adds to `referenced` for one item, read off the pruned item
ReferencedBy(item) ==
    (IF IsSet(item.parent) THEN {Val(item.parent)} ELSE {})
        \cup (IF IsSet(item.children) THEN Range(Val(item.children)) ELSE {})
        \cup (IF IsSet(item.inheritedMembers) THEN Range(Val(item.inheritedMembers)) ELSE {})

Referenced(loaded) == UNION {ReferencedBy(loaded[i]) : i \in 1..Len(loaded)}

\* the orders in which `for reference in referenced` can visit a set of str:
\* the iteration order of a set follows the hashes of its members, and str
\* hashes are salted anew for every interpreter process
IterationOrders(set) ==
    {order \in [1..Cardinality(set) -> set] :
        \A i, j \in 1..Cardinality(set) : i # j => order[i] # order[j]}

\* content['references'] for one visiting order
ReferencesIn(order, map) == [i \in 1..Len(order) |-> map[order[i]]]

(***************************************************************************)
(* Stage A: the tag handlers of doxygen2docfx.py                           *)
(* A handler node is [tag, id, refid, kind, language, text, parent, obj,   *)
(* is_closed]: the element's tag, the attributes the handlers read, the    *)
(* node's buffer, its parent (the position on the stack of the node that   *)
(* create() was given, 0 for None), the identity of the object (the number *)
(* of the event that created it) and the is_closed attribute of a          *)
(* computeroutput node. A hook gives the set of its outcomes               *)
(* [stack, items, raised]: more than one where the code's result depends   *)
(* on the order of a set, raised where it ends in an AttributeError or     *)
(* KeyError. The handlers of listitem, sp, programlisting, formula,        *)
(* location and reimplementedby are left out: no input of the model has    *)
(* these elements.                                                         *)
(***************************************************************************)
\* translate(doxy)
translate(doxy) ==
    IF doxy = "C++" THEN "cpp"
    ELSE IF doxy = "variable" THEN "field"
    ELSE doxy

IdPrefixes == <<"class", "struct", "namespace">>

\* id_sorting(item_id): re.sub(r'^(class|struct|namespace)', '', item_id)
id_sorting(item_id) ==
    LET hits == {k \in 1..Len(IdPrefixes) : MatchesAt(item_id, IdPrefixes[k], 1)}
    IN  IF hits = {} THEN item_id
        ELSE LET k == CHOOSE x \in hits : \A y \in hits : x <= y
             IN  SubSeq(item_id, Len(IdPrefixes[k]) + 1, Len(item_id))

\* the characters of the identifiers, in code point order
CodePoints == "0123456789:ABCDEFGHIJKLMNOPQRSTUVWXYZ_abcdefghijklmnopqrstuvwxyz"

Ord(c) == CHOOSE i \in 1..Len(CodePoints) : Char(CodePoints, i) = c

\* a <= b for two str
RECURSIVE StrLeq(_, _)
StrLeq(a, b) ==
    IF a = "" THEN TRUE
    ELSE IF b = "" THEN FALSE
    ELSE IF Head(a) = Head(b) THEN StrLeq(Tail(a), Tail(b))
    ELSE Ord(Head(a)) < Ord(Head(b))

\* sorted(set(uids)) without the key
sorted_set_NoKey(uids) ==
    {order \in IterationOrders(uids) :
        \A i, j \in 1..Len(order) : i < j => StrLeq(order[i], order[j])}

\* sorted(set(uids), key=id_sorting): sorted() is stable, so uids of equal
\* key stay in the order in which the set was iterated
sorted_set(uids) ==
    {order \in IterationOrders(uids) :
        \A i, j \in 1..Len(order) :
            i < j => StrLeq(id_sorting(order[i]), id_sorting(order[j]))}

\* re.sub(".*::", "", name): the greedy .* takes everything up to the last ::
StripScope(name) ==
    LET at == {j \in 1..Len(name) : MatchesAt(name, "::", j)}
    IN  IF at = {} THEN name
        ELSE SubSeq(name, (CHOOSE j \in at : \A k \in at : k <= j) + Len("::"), Len(name))

Outcome(st, it) == {[stack |-> st, items |-> it, raised |-> FALSE]}
Raises(st, it) == {[stack |-> st, items |-> it, raised |-> TRUE]}

\* TagHandler.create(tag, attrs, parent): the node of a start event
create(event, parent, obj) ==
    [tag |-> event.tag, id |-> event.id, refid |-> event.refid, kind |-> event.kind,
     language |-> event.language, text |-> None, parent |-> parent, obj |-> obj,
     is_closed |-> None]

\* TagHandler.ancestor(count) of stack[n]: a position of the stack, 0 for None
RECURSIVE ancestor(_, _, _)
ancestor(st, n, count) ==
    IF count = 0 THEN n
    ELSE IF st[n].parent = 0 THEN 0
    ELSE ancestor(st, st[n].parent, count - 1)

\* has_tag(entity, tag), entity a position of the stack
has_tag(st, n, tag) == n >= 1 /\ st[n].tag = tag

\* add_content that hands the content to the parent first
RECURSIVE add_content_ParentFirst(_, _, _)
add_content_ParentFirst(st, n, content) ==
    IF st[n].parent # 0 /\ \E j \in 1..st[n].parent : IsSet(st[j].text)
    THEN add_content_ParentFirst(st, st[n].parent, content)
    ELSE IF IsSet(st[n].text) THEN [st EXCEPT ![n].text = Some(Val(@) \o content)]
    ELSE st

\* TagHandler.add_content called on the node st[n]
RECURSIVE add_content(_, _, _)
add_content(st, n, content) ==
    IF IsSet(st[n].text) THEN [st EXCEPT ![n].text = Some(Val(@) \o content)]
    ELSE IF st[n].parent # 0 THEN add_content(st, st[n].parent, content)
    ELSE st

\* TagHandler.enter, TagHandler.leave, TagHandler.characters
TagHandler_enter(st, it) == Outcome(st, it)
TagHandler_leave(st, it) == Outcome(st, it)
TagHandler_characters(st, it, content) == Outcome(add_content(st, Len(st), content), it)

\* the OrderedDict of a new item; the keys set later start missing
NewItem(uid, parent, type) ==
    [uid |-> uid, id |-> uid, parent |-> parent, type |-> type, summary |-> "",
     langs |-> None, name |-> None, fullName |-> None, children |-> None,
     inheritedMembers |-> None, derivedClasses |-> None, inheritance |-> None,
     brief |-> None, description |-> None, syntax |-> None]

\* CompoundDef.enter
CompoundDef_enter(st, it) ==
    LET self == st[Len(st)]
    IN  IF self.kind # Some("dir")
        THEN LET item == NewItem(Val(self.id), None, translate(Val(self.kind)))
             IN  Outcome(st, DictSet(it, Val(self.id),
                     IF IsSet(self.language)
                     THEN [item EXCEPT !.langs = Some(<<translate(Val(self.language))>>)]
                     ELSE item))
        ELSE Outcome(st, it)

\* CompountName.characters
CompountName_characters(st, it, content) ==
    LET n == Len(st)
    IN  IF st[n].parent = 0 \/ ~IsSet(st[st[n].parent].id) THEN Raises(st, it)
        ELSE LET item_id == Val(st[st[n].parent].id)
             IN  IF item_id \in DOMAIN it
                 THEN Outcome(st, [it EXCEPT ![item_id].name = Some(content),
                                             ![item_id].fullName = Some(content)])
                 ELSE Outcome(st, it)

\* BaseCompoundRef.enter
BaseCompoundRef_enter(st, it) ==
    LET n == Len(st)
    IN  IF st[n].parent = 0 \/ ~IsSet(st[st[n].parent].id) THEN Raises(st, it)
        ELSE LET item_id == Val(st[st[n].parent].id)
             IN  IF IsSet(st[n].refid)
                 THEN IF item_id \notin DOMAIN it THEN Raises(st, it)
                      ELSE Outcome(st, [it EXCEPT ![item_id].inheritance =
                               Some((IF IsSet(@) THEN Val(@) ELSE <<>>)
                                        \o <<Val(st[n].refid)>>)])
                 ELSE Outcome(st, it)

\* DerivedCompoundRef.enter
DerivedCompoundRef_enter(st, it) ==
    LET n == Len(st)
    IN  IF st[n].parent = 0 \/ ~IsSet(st[st[n].parent].id) THEN Raises(st, it)
        ELSE LET item_id == Val(st[st[n].parent].id)
             IN  IF item_id \notin DOMAIN it \/ ~IsSet(st[n].refid) THEN Raises(st, it)
                 ELSE LET derived == (IF IsSet(it[item_id].derivedClasses)
                                      THEN Range(Val(it[item_id].derivedClasses))
                                      ELSE {}) \cup {Val(st[n].refid)}
                      IN  UNION {Outcome(st, [it EXCEPT ![item_id].derivedClasses = Some(order)]) :
                                    order \in sorted_set(derived)}

ExcludedKinds == {"friend", "type", "typedef", "variable"}

\* MemberDef.enter
MemberDef_enter(st, it) ==
    LET n == Len(st)
        self == st[n]
        a2 == ancestor(st, n, 2)
    IN  IF Val(self.kind) \notin ExcludedKinds
        THEN IF a2 = 0 \/ ~IsSet(st[a2].id) THEN Raises(st, it)
             ELSE Outcome(st, DictSet(it, Val(self.id),
                      NewItem(Val(self.id), Some(Val(st[a2].id)), translate(Val(self.kind)))))
        ELSE Outcome(st, it)

\* the item an inherited-member name is recorded on: the member instead of
\* the compound that lists it
InheritedOwner_Member(parent_id, member_id) == member_id

\* lines 119-129: an inherited-member name is recorded on the compound of
\* the listofallmembers, ancestor(3)
InheritedOwner(parent_id, member_id) == parent_id

\* fullName without the parent's
MemberFullName_Short(parent_fullName, content) == content

\* lines 138-139
MemberFullName(parent_fullName, content) == parent_fullName \o "::" \o content

\* the constructor test against the whole parent name
MemberType_Qualified(content, parent_name) ==
    translate(IF content = parent_name THEN "constructor" ELSE "method")

\* lines 141-145: the type of a member whose type was 'function'
MemberType(content, parent_name) ==
    translate(IF content = StripScope(parent_name) THEN "constructor" ELSE "method")

\* Name.characters, first branch: a name in listofallmembers/member
Name_inherited(st, it, content) ==
    LET n == Len(st)
        a3 == ancestor(st, n, 3)
    IN  IF a3 = 0 \/ ~IsSet(st[a3].id) \/ ~IsSet(st[st[n].parent].refid) THEN Raises(st, it)
        ELSE LET member_id == Val(st[st[n].parent].refid)
                 parent_id == InheritedOwner(Val(st[a3].id), member_id)
             IN  IF /\ parent_id \in DOMAIN it
                    /\ \/ ~IsSet(it[parent_id].children)
                       \/ member_id \notin Range(Val(it[parent_id].children))
                 THEN LET inherited ==
                              (IF IsSet(it[parent_id].inheritedMembers)
                               THEN Range(Val(it[parent_id].inheritedMembers))
                               ELSE {}) \cup {member_id}
                      IN  UNION {Outcome(st, [it EXCEPT
                                     ![parent_id].inheritedMembers = Some(order)]) :
                                    order \in sorted_set(inherited)}
                 ELSE Outcome(st, it)

\* Name.characters, second branch: the name of a member of ancestor(3)
Name_member(st, it, content) ==
    LET n == Len(st)
        parent_id == Val(st[ancestor(st, n, 3)].id)
    IN  IF ~IsSet(st[st[n].parent].id) \/ parent_id \notin DOMAIN it THEN Raises(st, it)
        ELSE LET item_id == Val(st[st[n].parent].id)
                 it1 == [it EXCEPT ![parent_id].children =
                            Some((IF IsSet(@) THEN Val(@) ELSE <<>>) \o <<item_id>>)]
                 it2 == [it1 EXCEPT ![item_id].name = Some(content)]
                 it3 == [it2 EXCEPT ![item_id].fullName =
                            Some(MemberFullName(Val(it2[parent_id].fullName), content))]
             IN  IF item_id \notin DOMAIN it1 THEN Outcome(st, it1)
                 ELSE IF ~IsSet(it2[parent_id].fullName) THEN Raises(st, it2)
                 ELSE IF it3[item_id].type # "function" THEN Outcome(st, it3)
                 ELSE IF ~IsSet(it3[parent_id].name) THEN Raises(st, it3)
                 ELSE Outcome(st, [it3 EXCEPT ![item_id].type =
                                      MemberType(content, Val(it3[parent_id].name))])

\* Name.characters
Name_characters(st, it, content) ==
    LET n == Len(st)
        a3 == ancestor(st, n, 3)
    IN  IF has_tag(st, ancestor(st, n, 2), "listofallmembers")
        THEN Name_inherited(st, it, content)
        ELSE IF a3 # 0 /\ IsSet(st[a3].id)
        THEN Name_member(st, it, content)
        ELSE Outcome(st, it)

\* BriefDescription.enter, DetailedDescription.enter: self.text = ''
Description_enter(st, it) == Outcome([st EXCEPT ![Len(st)].text = Some("")], it)

\* BriefDescription.leave
BriefDescription_leave(st, it) ==
    LET n == Len(st)
        text == Val(st[n].text)
        closed == [st EXCEPT ![n].text = None]
    IN  IF st[n].parent = 0 \/ ~IsSet(st[st[n].parent].id) THEN Raises(st, it)
        ELSE LET item_id == Val(st[st[n].parent].id)
             IN  IF item_id \in DOMAIN it
                 THEN Outcome(closed, [it EXCEPT ![item_id].brief = Some(Strip(text)),
                                                 ![item_id].summary = Strip(text)])
                 ELSE Outcome(closed, it)

\* the summary without the blank line
DetailedSummary_NoBlankLine(summary, text) == Strip(summary \o Strip(text))

\* lines 289-291
DetailedSummary(summary, text) == Strip(summary \o "\n\n" \o Strip(text))

\* DetailedDescription.leave
DetailedDescription_leave(st, it) ==
    LET n == Len(st)
        text == Val(st[n].text)
        closed == [st EXCEPT ![n].text = None]
    IN  IF st[n].parent = 0 \/ ~IsSet(st[st[n].parent].id) THEN Raises(st, it)
        ELSE LET item_id == Val(st[st[n].parent].id)
             IN  IF item_id \in DOMAIN it
                 THEN Outcome(closed,
                          [it EXCEPT ![item_id].description = Some(Strip(text)),
                                     ![item_id].summary = DetailedSummary(@, text)])
                 ELSE Outcome(closed, it)

\* lines 154 and 163: items[item_id]['syntax']['content'] += content.strip()
SyntaxContent(old, content) == old \o Strip(content)

\* Definition.characters, ArgsString.characters: syntax is kept as its content
Syntax_characters(st, it, content) ==
    LET n == Len(st)
    IN  IF st[n].parent = 0 \/ ~IsSet(st[st[n].parent].id) THEN Raises(st, it)
        ELSE LET item_id == Val(st[st[n].parent].id)
             IN  IF item_id \in DOMAIN it
                 THEN Outcome(st, [it EXCEPT ![item_id].syntax =
                          Some(SyntaxContent(IF IsSet(@) THEN Val(@) ELSE "", content))])
                 ELSE Outcome(st, it)

AdmonitionMarkers == <<"NOTE", "WARNING", "TIP", "IMPORTANT", "CAUTION">>

\* re.sub(r"^ *(NOTE|WARNING|TIP|IMPORTANT|CAUTION):", "\n> [!\\1]\n> ", content, count=1)
Admonition(content) ==
    LET blanks == {k \in 0..Len(content) : \A i \in 1..k : Char(content, i) = " "}
        lead == CHOOSE k \in blanks : \A j \in blanks : j <= k
        hits == {m \in 1..Len(AdmonitionMarkers) :
                    MatchesAt(content, AdmonitionMarkers[m] \o ":", lead + 1)}
    IN  IF hits = {} THEN content
        ELSE LET marker == AdmonitionMarkers[CHOOSE m \in hits : TRUE]
             IN  "\n> [!" \o marker \o "]\n> "
                     \o SubSeq(content, lead + Len(marker) + 2, Len(content))

\* Para.characters
Para_characters(st, it, content) ==
    Outcome(add_content(st, Len(st), Admonition(content)), it)

\* the character U+0060 of the inline code spans; a TLA+ string cannot hold
\* it, so the apostrophe, which no text of the model has, stands for it
Backtick == "'"

\* ComputerOutput.enter
ComputerOutput_enter(st, it) ==
    LET n == Len(st)
    IN  Outcome(add_content([st EXCEPT ![n].is_closed = Some(FALSE)], n, Backtick), it)

\* ComputerOutput.leave
ComputerOutput_leave(st, it) ==
    LET n == Len(st)
    IN  IF st[n].is_closed # Some(TRUE) THEN Outcome(add_content(st, n, Backtick), it)
        ELSE Outcome(st, it)

\* lines 298-300: the first node from st[n] up whose text is set, 0 for None
RECURSIVE OwnerFrom(_, _)
OwnerFrom(st, n) ==
    IF n = 0 THEN 0
    ELSE IF IsSet(st[n].text) THEN n
    ELSE OwnerFrom(st, st[n].parent)

\* the bracket after the last character
InsertBracket_AtEnd(text) == text \o "["

\* line 302: node.text[:-1] + '[' + node.text[-1:]
InsertBracket(text) ==
    SubSeq(text, 1, Len(text) - 1) \o "[" \o SubSeq(text, Len(text), Len(text))

\* Ref.enter
Ref_enter(st, it) ==
    LET n == Len(st)
    IN  IF has_tag(st, st[n].parent, "computeroutput")
        THEN LET node == OwnerFrom(st, st[n].parent)
             IN  IF node # 0
                 THEN Outcome([st EXCEPT ![node].text = Some(InsertBracket(Val(@)))], it)
                 ELSE Outcome(st, it)
        ELSE Outcome(add_content(st, n, "["), it)

\* Ref.leave
Ref_leave(st, it) ==
    LET n == Len(st)
        st1 == IF has_tag(st, st[n].parent, "computeroutput")
               THEN [add_content(st, n, Backtick) EXCEPT ![st[n].parent].is_closed = Some(TRUE)]
               ELSE st
    IN  IF ~IsSet(st[n].refid) THEN Raises(st1, it)
        ELSE Outcome(add_content(st1, n, "](xref:" \o Val(st[n].refid) \o ")"), it)

\* TagHandler.handlers: the hook that stack[-1].enter(items) runs
node_enter(st, it) ==
    LET tag == st[Len(st)].tag
    IN  CASE tag = "compounddef" -> CompoundDef_enter(st, it)
          [] tag = "basecompoundref" -> BaseCompoundRef_enter(st, it)
          [] tag = "derivedcompoundref" -> DerivedCompoundRef_enter(st, it)
          [] tag = "memberdef" -> MemberDef_enter(st, it)
          [] tag \in {"briefdescription", "detaileddescription"} -> Description_enter(st, it)
          [] tag = "computeroutput" -> ComputerOutput_enter(st, it)
          [] tag = "ref" -> Ref_enter(st, it)
          [] OTHER -> TagHandler_enter(st, it)

\* the hook that stack[-1].leave(items) runs
node_leave(st, it) ==
    LET tag == st[Len(st)].tag
    IN  CASE tag = "briefdescription" -> BriefDescription_leave(st, it)
          [] tag = "detaileddescription" -> DetailedDescription_leave(st, it)
          [] tag = "computeroutput" -> ComputerOutput_leave(st, it)
          [] tag = "ref" -> Ref_leave(st, it)
          [] OTHER -> TagHandler_leave(st, it)

\* the hook that stack[-1].characters(content, items) runs
node_characters(st, it, content) ==
    LET tag == st[Len(st)].tag
    IN  CASE tag = "name" -> Name_characters(st, it, content)
          [] tag = "compoundname" -> CompountName_characters(st, it, content)
          [] tag \in {"definition", "argsstring"} -> Syntax_characters(st, it, content)
          [] tag = "para" -> Para_characters(st, it, content)
          [] OTHER -> TagHandler_characters(st, it, content)

(***************************************************************************)
(* The paths handed to translate_path                                      *)
(***************************************************************************)
MaxStem == 2

PathDirs == {"doxygen/xml/", "", "doxygen_xml/"}
PathKinds == {"class", "struct", "namespace", "dir_"}
StemParts == {"qiotoolkit_1_1", "1_1", "Foo", "ABc", "_", "-", "x"}
PathExts == {".xml", ".yml"}

RECURSIVE Stems(_)
Stems(n) ==
    IF n = 0 THEN {""}
    ELSE LET shorter == Stems(n - 1)
         IN  shorter \cup {s \o t : s \in shorter, t \in StemParts}

PathInputs ==
    {d \o k \o s \o e : d \in PathDirs, k \in PathKinds, s \in Stems(MaxStem), e \in PathExts}

MaxTranslations == 2

IdlePath ==
    /\ tp_arg = ""
    /\ tp_results = <<>>

IdleB ==
    /\ paths = <<>>
    /\ snapshot = <<>>
    /\ disk = <<>>
    /\ xreflist = <<>>
    /\ xrefmap = <<>>
    /\ xrefmap_yml = None
    /\ pass = "done"
    /\ pathIdx = 0
    /\ firstRun = None

IdleA ==
    /\ doc = <<>>
    /\ pos = 0
    /\ stack = <<>>
    /\ items = <<>>
    /\ keys = <<>>
    /\ calls = <<>>
    /\ parse = "done"

IdleConv ==
    /\ conv_path = ""
    /\ filename = None
    /\ conv = "done"
    /\ key_idx = 0
    /\ namespace_name = None
    /\ files = <<>>
    /\ opened = <<>>

IdleChain ==
    /\ chain = <<>>
    /\ ac_call = None

IdleGate ==
    /\ report = None
    /\ error_threshold = 0
    /\ warning_threshold = 0
    /\ exit_code = None

IdleRest == IdleConv /\ IdleChain /\ IdleGate

InitPath ==
    /\ tp_arg \in PathInputs
    /\ tp_results = <<>>
    /\ IdleB
    /\ IdleA
    /\ IdleRest

\* one call of translate_path: on the argument first, then on the previous result
TranslatePath ==
    /\ Len(tp_results) < MaxTranslations
    /\ tp_results' = Append(tp_results,
          translate_path(IF tp_results = <<>> THEN tp_arg
                         ELSE tp_results[Len(tp_results)]))
    /\ UNCHANGED <<tp_arg, varsB, varsA, varsRest>>

NextPath == TranslatePath

SpecPath == InitPath /\ [][NextPath]_vars

(***************************************************************************)
(* The record files handed to Stage B                                      *)
(***************************************************************************)
MaxRel == 2

Lists(set, n) == UNION {[1..k -> set] : k \in 0..n}
Optional(set) == {None} \cup {Some(v) : v \in set}

ChildUids == {"classA_1f", "classB_1g", "classZ_1h"}
InheritedUids == {"classB_1g", "classZ_1h"}

ItemA(children, inherited, bases) ==
    [uid |-> "classA", name |-> "A", fullName |-> "A", parent |-> None,
     children |-> children, inheritedMembers |-> inherited, inheritance |-> bases]

ItemF(parent) ==
    [uid |-> "classA_1f", name |-> "f", fullName |-> "A::f", parent |-> parent,
     children |-> None, inheritedMembers |-> None, inheritance |-> None]

ItemB ==
    [uid |-> "classB", name |-> "B", fullName |-> "B", parent |-> None,
     children |-> None, inheritedMembers |-> None,
     inheritance |-> Some(<<"classA">>)]

ItemG ==
    [uid |-> "classB_1g", name |-> "g", fullName |-> "B::g", parent |-> Some("classB"),
     children |-> None, inheritedMembers |-> None, inheritance |-> None]

Content(loaded) == [items |-> loaded, references |-> None]

PathLists == {<<"api/a.yml", "toc.yml", "api/b.yml">>, <<"api/toc.yml", "api/a.yml">>}

InitB ==
    /\ IdlePath
    /\ IdleA
    /\ IdleRest
    /\ paths \in PathLists
    /\ \E a \in Optional(Lists(ChildUids, MaxRel)),
          m \in Optional(Lists(InheritedUids, MaxRel)),
          b \in Optional({<<"classZ">>}),
          f \in Optional({"classA", "classZ"}) :
            snapshot = [p \in Range(paths) |->
                           IF p = "api/a.yml" THEN Content(<<ItemA(a, m, b), ItemF(f)>>)
                           ELSE IF p = "api/b.yml" THEN Content(<<ItemB, ItemG>>)
                           ELSE Content(<<>>)]
    /\ disk = snapshot
    /\ xreflist = <<>>
    /\ xrefmap = <<>>
    /\ xrefmap_yml = None
    /\ pass = "collect"
    /\ pathIdx = 1
    /\ firstRun = None

\* lines 41-55: one turn of the first loop
Collect ==
    /\ pass = "collect"
    /\ pathIdx <= Len(paths)
    /\ LET path == paths[pathIdx]
       IN  IF IsToc(path)
           THEN UNCHANGED <<xreflist, xrefmap>>
           ELSE /\ xreflist' = CollectList(xreflist, disk[path].items, path, 1)
                /\ xrefmap' = CollectMap(xrefmap, disk[path].items, path, 1)
    /\ pathIdx' = pathIdx + 1
    /\ UNCHANGED <<paths, snapshot, disk, xrefmap_yml, pass, firstRun, varsPath, varsA, varsRest>>

\* lines 57-58: xrefmap.yml is written between the loops
WriteXrefmap ==
    /\ pass = "collect"
    /\ pathIdx > Len(paths)
    /\ xrefmap_yml' = Some([references |-> xreflist])
    /\ pass' = "rewrite"
    /\ pathIdx' = 1
    /\ UNCHANGED <<paths, snapshot, disk, xreflist, xrefmap, firstRun, varsPath, varsA, varsRest>>

\* lines 60-87: one turn of the second loop; the function returns after the last
Rewrite ==
    /\ pass = "rewrite"
    /\ pathIdx <= Len(paths)
    /\ LET path == paths[pathIdx]
           pruned == [i \in 1..Len(disk[path].items) |->
                         PruneItem(disk[path].items[i], xrefmap)]
       IN  IF IsToc(path)
           THEN UNCHANGED disk
           ELSE \E order \in IterationOrders(Referenced(pruned)) :
                    disk' = [disk EXCEPT ![path] =
                                [items |-> pruned,
                                 references |-> Some(ReferencesIn(order, xrefmap))]]
    /\ pathIdx' = pathIdx + 1
    /\ pass' = IF pathIdx = Len(paths) THEN "done" ELSE "rewrite"
    /\ UNCHANGED <<paths, snapshot, xreflist, xrefmap, xrefmap_yml, firstRun, varsPath, varsA, varsRest>>

\* the stage is run a second time over the files as Stage A left them
Rerun ==
    /\ pass = "done"
    /\ firstRun = None
    /\ paths # <<>>
    /\ firstRun' = Some([disk |-> disk, xrefmap_yml |-> xrefmap_yml])
    /\ disk' = snapshot
    /\ xreflist' = <<>>
    /\ xrefmap' = <<>>
    /\ xrefmap_yml' = None
    /\ pass' = "collect"
    /\ pathIdx' = 1
    /\ UNCHANGED <<paths, snapshot, varsPath, varsA, varsRest>>

NextB == Collect \/ WriteXrefmap \/ Rewrite \/ Rerun

SpecB == InitB /\ [][NextB]_vars

(***************************************************************************)
(* Stage B: properties                                                     *)
(***************************************************************************)
RewrittenPaths == {p \in Range(paths) : ~IsToc(p)}

\* the uids of the corpus: every item of every record file Stage A left
GlobalUids ==
    {snapshot[p].items[i].uid : <<p, i>> \in
        {<<p, i>> \in RewrittenPaths \X (1..4) : i <= Len(snapshot[p].items)}}

OnlyGlobal(uids) == SelectSeq(uids, LAMBDA u : u \in GlobalUids)

ItemPrunedToMap(old, new) ==
    /\ IsSet(new.parent) => Val(new.parent) \in GlobalUids
    /\ new.parent = IF IsSet(old.parent) /\ Val(old.parent) \in GlobalUids
                    THEN old.parent ELSE None
    /\ IsSet(new.children) = IsSet(old.children)
    /\ IsSet(new.children) =>
          /\ Range(Val(new.children)) \subseteq GlobalUids
          /\ Val(new.children) = OnlyGlobal(Val(old.children))
    /\ IsSet(new.inheritedMembers) = IsSet(old.inheritedMembers)
    /\ IsSet(new.inheritedMembers) =>
          /\ Range(Val(new.inheritedMembers)) \subseteq GlobalUids
          /\ Val(new.inheritedMembers) = OnlyGlobal(Val(old.inheritedMembers))

\* C1: once Stage B has completed, in every rewritten record each item's
\* parent (if still there), children and inheritedMembers are uids of the
\* corpus: a parent outside it is deleted, and the two lists keep exactly
\* their corpus uids in their original order.
C1_RelationsPrunedToMap ==
    pass = "done" =>
        \A p \in RewrittenPaths :
            /\ Len(disk[p].items) = Len(snapshot[p].items)
            /\ \A i \in 1..Len(disk[p].items) :
                  ItemPrunedToMap(snapshot[p].items[i], disk[p].items[i])

\* a dangling parent, and lists with a dangling uid before or after a kept one
C1_Witness ==
    /\ pass = "done"
    /\ "api/a.yml" \in RewrittenPaths
    /\ "api/b.yml" \in RewrittenPaths
    /\ snapshot["api/a.yml"].items[1].children = Some(<<"classB_1g", "classZ_1h">>)
    /\ disk["api/a.yml"].items[1].children = Some(<<"classB_1g">>)
    /\ snapshot["api/a.yml"].items[1].inheritedMembers = Some(<<"classZ_1h", "classB_1g">>)
    /\ disk["api/a.yml"].items[1].inheritedMembers = Some(<<"classB_1g">>)
    /\ snapshot["api/a.yml"].items[2].parent = Some("classZ")
    /\ disk["api/a.yml"].items[2].parent = None

\* the uids that survive in the relations of a rewritten record
SurvivingUids(written) ==
    {u \in GlobalUids \cup ChildUids \cup InheritedUids :
        \E i \in 1..Len(written) :
            \/ written[i].parent = Some(u)
            \/ IsSet(written[i].children) /\ u \in Range(Val(written[i].children))
            \/ IsSet(written[i].inheritedMembers)
                  /\ u \in Range(Val(written[i].inheritedMembers))}

\* C2: the references of a rewritten record hold exactly one GlobalReference
\* per distinct uid surviving as parent, children or inheritedMembers entry of
\* one of its items, and none for any other uid (none for a pruned uid).
C2_ReferencesAreSurvivors ==
    pass = "done" =>
        \A p \in RewrittenPaths :
            /\ IsSet(disk[p].references)
            /\ LET refs == Val(disk[p].references)
                   surviving == SurvivingUids(disk[p].items)
               IN  /\ {refs[i].uid : i \in 1..Len(refs)} = surviving
                   /\ Len(refs) = Cardinality(surviving)
                   /\ \A i \in 1..Len(refs) :
                         /\ refs[i].uid \in GlobalUids
                         /\ refs[i] \in Range(Val(xrefmap_yml).references)

\* one uid kept twice (child and inherited member) next to a pruned one
C2_Witness ==
    /\ pass = "done"
    /\ "api/a.yml" \in RewrittenPaths
    /\ "api/b.yml" \in RewrittenPaths
    /\ snapshot["api/a.yml"].items[1].children = Some(<<"classZ_1h", "classB_1g">>)
    /\ snapshot["api/a.yml"].items[1].inheritedMembers = Some(<<"classB_1g">>)
    /\ snapshot["api/a.yml"].items[2].parent = Some("classA")
    /\ Len(Val(disk["api/a.yml"].references)) = 2

\* C3: Stage B leaves inheritance, like every key other than parent, children
\* and inheritedMembers, as Stage A wrote it, dangling uids included.
C3_InheritanceUntouched ==
    pass = "done" =>
        \A p \in RewrittenPaths :
            \A i \in 1..Len(disk[p].items) :
                LET old == snapshot[p].items[i]
                    new == disk[p].items[i]
                IN  /\ new.inheritance = old.inheritance
                    /\ new.uid = old.uid
                    /\ new.name = old.name
                    /\ new.fullName = old.fullName

\* a base class outside the corpus is still listed
C3_Witness ==
    /\ pass = "done"
    /\ "api/a.yml" \in RewrittenPaths
    /\ "classZ" \notin DOMAIN xrefmap
    /\ disk["api/a.yml"].items[1].inheritance = Some(<<"classZ">>)
    /\ disk["api/a.yml"].items[1].children = Some(<<>>)
    /\ snapshot["api/a.yml"].items[1].children = Some(<<"classZ_1h">>)

\* C6: two runs over the same record files write the same files and the
\* same xrefmap.yml, list orders included.
C6_RunsAgree ==
    (pass = "done" /\ IsSet(firstRun)) =>
        /\ disk = Val(firstRun).disk
        /\ xrefmap_yml = Val(firstRun).xrefmap_yml

(***************************************************************************)
(* translate_path: properties                                              *)
(***************************************************************************)
\* C10 as stated: translating a translated path gives the same path.
C10_Idempotent ==
    \A k \in 1..(Len(tp_results) - 1) : tp_results[k + 1] = tp_results[k]

\* C10, amended: every result starts with api/, so translating a result
\* never gives it back; a result without doxygen/xml/ in it comes back with
\* one more api/ in front.
C10_AddsRootAgain ==
    /\ \A k \in 1..Len(tp_results) : MatchesAt(tp_results[k], "api/", 1)
    /\ \A k \in 1..(Len(tp_results) - 1) :
          /\ tp_results[k + 1] # tp_results[k]
          /\ ~Contains(tp_results[k], "doxygen/xml/") =>
                tp_results[k + 1] = "api/" \o tp_results[k]

C10_Witness ==
    /\ tp_arg = "doxygen/xml/classqiotoolkit_1_1Foo.xml"
    /\ tp_results = <<"api/foo.yml", "api/api/foo.yml">>

(***************************************************************************)
(* The XML files handed to Stage A, and the SAX events of a file           *)
(* A file is one compounddef in a doxygen root, its children in the order  *)
(* of doxygen's compound.xsd except that the two descriptions come in      *)
(* either order. Every text is a list of chunks: the parser delivers each  *)
(* chunk in one characters event (a text is split at an entity and at the  *)
(* end of a read buffer). The ids of the memberdefs of a file differ from  *)
(* each other and from the compound's.                                     *)
(***************************************************************************)
MaxDerived == 2
MaxInherited == 2
MaxMembers == 2
MaxBases == 2

StartEv(tag, id, refid, kind, language) ==
    [ev |-> "start", tag |-> tag, id |-> id, refid |-> refid, kind |-> kind,
     language |-> language, content |-> ""]
CharsEv(content) ==
    [ev |-> "chars", tag |-> "", id |-> None, refid |-> None, kind |-> None,
     language |-> None, content |-> content]
EndEv ==
    [ev |-> "end", tag |-> "", id |-> None, refid |-> None, kind |-> None,
     language |-> None, content |-> ""]

RECURSIVE Concat(_)
Concat(seqs) == IF seqs = <<>> THEN <<>> ELSE Head(seqs) \o Concat(Tail(seqs))

CharsOf(chunks) == [i \in 1..Len(chunks) |-> CharsEv(chunks[i])]
Element(start, inner) == <<start>> \o inner \o <<EndEv>>
Plain(tag) == StartEv(tag, None, None, None, None)

\* a piece of a paragraph: a text (one characters event), a <bold>, a <ref>
\* or a <computeroutput> with texts and refs inside
Text(s) == [k |-> "text", s |-> s, refid |-> None, inner |-> <<>>]
Bold(s) == [k |-> "bold", s |-> s, refid |-> None, inner |-> <<>>]
RefTo(refid, s) == [k |-> "ref", s |-> s, refid |-> Some(refid), inner |-> <<>>]
Code(inner) == [k |-> "code", s |-> "", refid |-> None, inner |-> inner]

RECURSIVE PieceEvents(_)
PieceEvents(p) ==
    CASE p.k = "text" -> <<CharsEv(p.s)>>
      [] p.k = "bold" -> Element(Plain("bold"), <<CharsEv(p.s)>>)
      [] p.k = "ref" -> Element(StartEv("ref", None, p.refid, None, None), <<CharsEv(p.s)>>)
      [] p.k = "code" ->
            Element(Plain("computeroutput"),
                Concat([i \in 1..Len(p.inner) |-> PieceEvents(p.inner[i])]))

ParaEvents(para) ==
    Element(Plain("para"), Concat([i \in 1..Len(para) |-> PieceEvents(para[i])]))

\* a description element: text, then a <bold> child when bold has chunks,
\* then its paragraphs
DescriptionEvents(d) ==
    Element(Plain(d.tag),
        CharsOf(d.text)
            \o (IF d.bold = <<>> THEN <<>> ELSE Element(Plain("bold"), CharsOf(d.bold)))
            \o Concat([i \in 1..Len(d.paras) |-> ParaEvents(d.paras[i])]))

\* a memberdef: definition and argsstring (when they have text) come before
\* the name, as doxygen writes them
MemberEvents(m) ==
    Element(StartEv("memberdef", Some(m.id), None, Some(m.kind), None),
        (IF m.definition = <<>> THEN <<>>
         ELSE Element(Plain("definition"), CharsOf(m.definition)))
            \o (IF m.argsstring = <<>> THEN <<>>
                ELSE Element(Plain("argsstring"), CharsOf(m.argsstring)))
            \o Element(Plain("name"), CharsOf(m.name))
            \o Concat([i \in 1..Len(m.descriptions) |-> DescriptionEvents(m.descriptions[i])]))

BaseEvents(refid) ==
    Element(StartEv("basecompoundref", None, refid, None, None), <<CharsEv("Base")>>)

DerivedEvents(refid) ==
    Element(StartEv("derivedcompoundref", None, Some(refid), None, None), <<>>)

ListedMemberEvents(refid) ==
    Element(StartEv("member", None, Some(refid), None, None),
        Element(Plain("name"), <<CharsEv("m")>>))

DocEvents(d) ==
    Element(Plain("doxygen"),
        Element(StartEv("compounddef", Some(d.id), None, Some(d.kind), d.language),
            Element(Plain("compoundname"), CharsOf(d.name))
                \o Concat([i \in 1..Len(d.bases) |-> BaseEvents(d.bases[i])])
                \o Concat([i \in 1..Len(d.derived) |-> DerivedEvents(d.derived[i])])
                \o (IF d.members = <<>> THEN <<>>
                    ELSE Element(StartEv("sectiondef", None, None, Some("func"), None),
                             Concat([i \in 1..Len(d.members) |-> MemberEvents(d.members[i])])))
                \o Concat([i \in 1..Len(d.descriptions) |->
                              DescriptionEvents(d.descriptions[i])])
                \o (IF d.allmembers = <<>> THEN <<>>
                    ELSE Element(Plain("listofallmembers"),
                             Concat([i \in 1..Len(d.allmembers) |->
                                        ListedMemberEvents(d.allmembers[i])])))))

BaseDoc ==
    [kind |-> "class", id |-> "classA", language |-> Some("C++"), name |-> <<"ns::A">>,
     bases |-> <<>>, derived |-> <<>>, members |-> <<>>, descriptions |-> <<>>,
     allmembers |-> <<>>]

MemberId(i) == "classA_1m" \o Char("123456789", i)

Member(i, kind, name, descriptions) ==
    [kind |-> kind, id |-> MemberId(i), name |-> name, descriptions |-> descriptions,
     definition |-> <<>>, argsstring |-> <<>>]

DerivedRefs == {"classD", "structD", "structC"}
ListedRefs == {"classA_1m1", "classP_1x", "structB_1y"}

\* derived classes and inherited members of a class with one method
SortingDocs ==
    {[BaseDoc EXCEPT !.members = <<Member(1, "function", <<"f">>, <<>>)>>,
                     !.derived = d, !.allmembers = a] :
        d \in Lists(DerivedRefs, MaxDerived), a \in Lists(ListedRefs, MaxInherited)}

CompoundNames == {<<>>, <<"ns::A">>, <<"ns::", "A">>}
MemberShapes ==
    ({"function", "variable", "enum"} \X {<<"A">>, <<"f">>, <<"A", "f">>})
        \cup {<<"function", <<>>>>}

\* members of every kind, their names whole, split or missing
MemberDocs ==
    {[BaseDoc EXCEPT !.name = n,
                     !.members = [i \in 1..Len(ms) |-> Member(i, ms[i][1], ms[i][2], <<>>)],
                     !.allmembers = IF Len(ms) = 2 THEN <<MemberId(1)>> ELSE <<>>] :
        n \in CompoundNames, ms \in Lists(MemberShapes, MaxMembers)}

Briefs ==
    {[tag |-> "briefdescription", text |-> <<" b">>, bold |-> <<"B", " ">>, paras |-> <<>>],
     [tag |-> "briefdescription", text |-> <<>>, bold |-> <<>>, paras |-> <<>>]}
Details ==
    {[tag |-> "detaileddescription", text |-> <<"\n d ", "e\n">>, bold |-> <<>>,
      paras |-> <<>>],
     [tag |-> "detaileddescription", text |-> <<>>, bold |-> <<"D">>, paras |-> <<>>]}

\* at most one brief and one detailed description, in either order
DescriptionLists ==
    {<<>>} \cup {<<b>> : b \in Briefs} \cup {<<d>> : d \in Details}
        \cup {<<b, d>> : b \in Briefs, d \in Details}
        \cup {<<d, b>> : b \in Briefs, d \in Details}

DescriptionDocs ==
    {[BaseDoc EXCEPT !.descriptions = ds, !.members = ms] :
        ds \in DescriptionLists,
        ms \in {<<>>} \cup {<<Member(1, k, <<"f">>, md)>> :
                              k \in {"function", "variable"}, md \in DescriptionLists}}

BaseRefs == {None, Some("classZ"), Some("classY")}

BaseClassDocs ==
    {[BaseDoc EXCEPT !.bases = b] : b \in Lists(BaseRefs, MaxBases)}

DirDoc ==
    [BaseDoc EXCEPT !.kind = "dir", !.id = "dir_src", !.language = None, !.name = <<"src">>]

DirDocs ==
    {[DirDoc EXCEPT !.descriptions = ds, !.bases = b, !.members = ms] :
        ds \in {<<>>} \cup {<<x>> : x \in Briefs},
        b \in {<<>>, <<None>>, <<Some("classZ")>>},
        ms \in {<<>>, <<Member(1, "function", <<"f">>, <<>>)>>}}

Docs == SortingDocs \cup MemberDocs \cup DescriptionDocs \cup BaseClassDocs \cup DirDocs

\* DocFxHandler.__init__, before the first event of converter.parse
StartOfParse ==
    /\ pos = 1
    /\ stack = <<>>
    /\ items = <<>>
    /\ keys = <<>>
    /\ calls = <<>>
    /\ parse = "parsing"

InitA ==
    /\ IdlePath
    /\ IdleB
    /\ IdleRest
    /\ doc \in Docs
    /\ StartOfParse

Event == DocEvents(doc)[pos]

\* a hook has run: its outcome, the stack as the dispatcher leaves it, and
\* the end of the document after the last event
Deliver(outcome, st, hook, obj) ==
    /\ stack' = st
    /\ items' = outcome.items
    /\ keys' = keys \o SetToSeq(DOMAIN outcome.items \ DOMAIN items)
    /\ calls' = Append(calls, <<hook, obj>>)
    /\ parse' = IF outcome.raised THEN "failed"
                ELSE IF pos = Len(DocEvents(doc)) THEN "done"
                ELSE "parsing"
    /\ pos' = pos + 1
    /\ UNCHANGED <<doc, varsPath, varsB, varsRest>>

\* the stack with a node for every open element but the bottom one's children
ParentOf_Bottom(st) == IF Len(st) > 0 THEN 1 ELSE 0

\* line 389: parent = self.stack[-1] if len(self.stack) else None
ParentOf(st) == Len(st)

\* DocFxHandler.startElement
startElement ==
    /\ parse = "parsing"
    /\ Event.ev = "start"
    /\ \E outcome \in node_enter(Append(stack, create(Event, ParentOf(stack), pos)), items) :
          Deliver(outcome, outcome.stack, "enter", pos)

\* DocFxHandler.endElement: the top node is popped unless its leave raised
endElement ==
    /\ parse = "parsing"
    /\ Event.ev = "end"
    /\ \E outcome \in node_leave(stack, items) :
          Deliver(outcome,
                  IF outcome.raised THEN outcome.stack
                  ELSE SubSeq(outcome.stack, 1, Len(outcome.stack) - 1),
                  "leave", stack[Len(stack)].obj)

\* DocFxHandler.characters
characters ==
    /\ parse = "parsing"
    /\ Event.ev = "chars"
    /\ \E outcome \in node_characters(stack, items, Event.content) :
          Deliver(outcome, outcome.stack, "characters", stack[Len(stack)].obj)

NextA == startElement \/ endElement \/ characters

SpecA == InitA /\ [][NextA]_vars

(***************************************************************************)
(* Stage A: properties                                                     *)
(***************************************************************************)
\* no uid twice, and the keys never decrease
SortedUnique(uids) ==
    \A i, j \in 1..Len(uids) :
        i < j => /\ uids[i] # uids[j]
                 /\ StrLeq(id_sorting(uids[i]), id_sorting(uids[j]))

\* C4: in every state of Stage A the derivedClasses and the inheritedMembers
\* of every item hold no uid twice and are in non-decreasing order of the
\* uid without its leading class, struct or namespace.
C4_SortedUnique ==
    \A x \in DOMAIN items :
        /\ IsSet(items[x].derivedClasses) => SortedUnique(Val(items[x].derivedClasses))
        /\ IsSet(items[x].inheritedMembers) => SortedUnique(Val(items[x].inheritedMembers))

\* derived classes given against the key order, an inherited member given twice
C4_Witness ==
    /\ parse = "done"
    /\ doc.derived = <<"classD", "structC">>
    /\ items["classA"].derivedClasses = Some(<<"structC", "classD">>)
    /\ doc.allmembers = <<"structB_1y", "structB_1y">>
    /\ items["classA"].inheritedMembers = Some(<<"structB_1y">>)

\* C5: at the end of Stage A an item with a parent in the mapping has
\* fullName = parent's fullName + "::" + name whenever the three are set, and
\* an item without a parent has fullName = name.
C5_FullNameComposed ==
    parse = "done" =>
        \A x \in DOMAIN items :
            IF IsSet(items[x].parent)
            THEN LET p == Val(items[x].parent)
                 IN  (/\ p \in DOMAIN items
                      /\ IsSet(items[x].name)
                      /\ IsSet(items[x].fullName)
                      /\ IsSet(items[p].fullName)) =>
                         Val(items[x].fullName) =
                             Val(items[p].fullName) \o "::" \o Val(items[x].name)
            ELSE /\ IsSet(items[x].name) = IsSet(items[x].fullName)
                 /\ items[x].fullName = items[x].name

C5_Witness ==
    /\ parse = "done"
    /\ "classA_1m1" \in DOMAIN items
    /\ items["classA"].fullName = Some("ns::A")
    /\ items["classA_1m1"].name = Some("f")
    /\ items["classA_1m1"].fullName = Some("ns::A::f")

\* the compounddef or memberdef element of item x is open
IsOpen(st, x) ==
    \E n \in 1..Len(st) :
        st[n].tag \in {"compounddef", "memberdef"} /\ st[n].id = Some(x)

\* C7: an item appears with the start event of its own element, and once
\* the end event of that element has been processed no event changes it.
C7_FrozenAfterClose ==
    [][/\ \A x \in DOMAIN items :
             ~IsOpen(stack, x) => (x \in DOMAIN items' /\ items'[x] = items[x])
       /\ \A x \in DOMAIN items' :
             x \notin DOMAIN items => IsOpen(stack', x)]_vars

\* a member whose element has closed, with later events recorded on the compound
C7_Witness ==
    /\ parse = "parsing"
    /\ "classA_1m1" \in DOMAIN items
    /\ ~IsOpen(stack, "classA_1m1")
    /\ IsOpen(stack, "classA")
    /\ items["classA_1m1"].fullName = Some("ns::A::f")
    /\ items["classA"].children = Some(<<"classA_1m1">>)
    /\ items["classA"].inheritedMembers = Some(<<"classP_1x">>)

\* C8 as stated: at the end of Stage A every materialized member whose name
\* was processed is a constructor when its name is the compound's name after
\* the last "::", a method otherwise; excluded kinds have no item.
C8_ConstructorOrMethod ==
    parse = "done" =>
        \A i \in 1..Len(doc.members) :
            LET m == doc.members[i]
            IN  IF m.kind \in ExcludedKinds THEN m.id \notin DOMAIN items
                ELSE /\ m.id \in DOMAIN items
                     /\ m.name # <<>> =>
                           items[m.id].type =
                               IF Val(items[m.id].name) = StripScope(Val(items[doc.id].name))
                               THEN "constructor" ELSE "method"

\* C8, amended: only a member of kind function is reclassified, by the text
\* of the first characters event of its name element (the whole name when it
\* comes in one event); a materialized member of another kind keeps its
\* translated kind; excluded kinds have no item.
C8_FunctionsReclassified ==
    parse = "done" =>
        \A i \in 1..Len(doc.members) :
            LET m == doc.members[i]
            IN  IF m.kind \in ExcludedKinds THEN m.id \notin DOMAIN items
                ELSE /\ m.id \in DOMAIN items
                     /\ m.name # <<>> =>
                           items[m.id].type =
                               IF m.kind # "function" THEN translate(m.kind)
                               ELSE IF m.name[1] = StripScope(Val(items[doc.id].name))
                               THEN "constructor" ELSE "method"
                     /\ m.name = <<>> => items[m.id].type = translate(m.kind)

C8_Witness ==
    /\ parse = "done"
    /\ doc.name = <<"ns::A">>
    /\ Len(doc.members) = 2
    /\ doc.members[1].kind = "function"
    /\ items[doc.members[1].id].name = Some("A")
    /\ items[doc.members[1].id].type = "constructor"
    /\ doc.members[2].kind = "enum"
    /\ items[doc.members[2].id].type = "enum"

\* C9 as stated: once a brief and a detailed description have closed on an
\* item, in whichever order, summary = trim(brief + "\n\n" + description).
C9_SummaryAnyOrder ==
    \A x \in DOMAIN items :
        (IsSet(items[x].brief) /\ IsSet(items[x].description)) =>
            items[x].summary =
                Strip(Val(items[x].brief) \o "\n\n" \o Val(items[x].description))

RECURSIVE Join(_)
Join(chunks) == IF chunks = <<>> THEN "" ELSE Head(chunks) \o Join(Tail(chunks))

\* the whole text of a description element
TextOf(d) == Join(d.text) \o Join(d.bold)

\* the items that have descriptions in the file, each with its descriptions
Described ==
    {<<doc.id, doc.descriptions>>}
        \cup {<<doc.members[i].id, doc.members[i].descriptions>> : i \in 1..Len(doc.members)}

\* C9, amended: brief and description are the trimmed texts of the two
\* elements; when the brief description closes first, summary =
\* trim(brief + "\n\n" + description); when the detailed description closes
\* first, the brief description overwrites summary with brief alone.
C9_SummaryBriefFirst ==
    \A e \in Described :
        LET x == e[1]
            ds == e[2]
        IN  (/\ x \in DOMAIN items
             /\ Len(ds) = 2
             /\ IsSet(items[x].brief)
             /\ IsSet(items[x].description)) =>
                LET b == IF ds[1].tag = "briefdescription" THEN ds[1] ELSE ds[2]
                    d == IF ds[1].tag = "briefdescription" THEN ds[2] ELSE ds[1]
                IN  /\ Val(items[x].brief) = Strip(TextOf(b))
                    /\ Val(items[x].description) = Strip(TextOf(d))
                    /\ items[x].summary =
                          IF ds[1].tag = "briefdescription"
                          THEN Strip(Strip(TextOf(b)) \o "\n\n" \o Strip(TextOf(d)))
                          ELSE Strip(TextOf(b))

C9_Witness ==
    /\ "classA" \in DOMAIN items
    /\ Len(doc.descriptions) = 2
    /\ doc.descriptions[1].tag = "briefdescription"
    /\ items["classA"].brief = Some("bB")
    /\ items["classA"].description = Some("d e")
    /\ items["classA"].summary = "bB\n\nd e"

(***************************************************************************)
(* convert(path): the parse of Stage A, then the output files              *)
(***************************************************************************)
MaxNsMembers == 2

\* os.path.join(a, b)
PathJoin(a, b) ==
    IF MatchesAt(b, "/", 1) THEN b
    ELSE IF a = "" \/ MatchesAt(a, "/", Len(a)) THEN a \o b
    ELSE a \o "/" \o b

\* the two filenames that convert never writes
SuppressedFilenames ==
    {"api/std/optional.yml", "api/ValueSetter/3_01std_optional_3_01T_01_4_01_4.yml"}

\* list(self.items.values()) of getYaml, for the dict with these keys
Values(order, it) == [i \in 1..Len(order) |-> it[order[i]]]

\* the file of a namespace: its function members, their names whole, split
\* at an entity, equal to each other or to the namespace, or missing
NsMemberShapes ==
    ({"function"} \X {<<"f">>, <<"isEven">>, <<"&">>, <<"operator", "&">>, <<"matcher">>, <<>>})
        \cup {<<"variable", <<"v">>>>}

NamespaceDocs ==
    {[BaseDoc EXCEPT !.kind = "namespace", !.id = "namespacematcher", !.name = <<"matcher">>,
                     !.members = [i \in 1..Len(ms) |-> Member(i, ms[i][1], ms[i][2], <<>>)]] :
        ms \in Lists(NsMemberShapes, MaxNsMembers)}

ConvPaths ==
    {"doxygen/xml/namespacematcher.xml", "doxygen/xml/namespaceqiotoolkit.xml",
     "doxygen/xml/classqiotoolkit_1_1Foo.xml", "doxygen/xml/structstd_optional.xml",
     "doxygen/xml/classValueSetter_3_01std_optional_3_01T_01_4_01_4.xml"}

InitConv ==
    /\ IdlePath
    /\ IdleB
    /\ IdleChain
    /\ IdleGate
    /\ \/ doc \in NamespaceDocs /\ conv_path \in ConvPaths
       \/ doc = BaseDoc /\ conv_path \in PathInputs
    /\ StartOfParse
    /\ filename = None
    /\ conv = "parse"
    /\ key_idx = 0
    /\ namespace_name = None
    /\ files = <<>>
    /\ opened = <<>>

\* lines 406-408: the path is a namespacematcher file, the loop starts
convert_matcher ==
    /\ conv = "parse"
    /\ parse = "done"
    /\ Contains(conv_path, "/namespacematcher")
    /\ conv' = IF keys = <<>> THEN "done" ELSE "split"
    /\ key_idx' = 1
    /\ namespace_name' = None
    /\ UNCHANGED <<conv_path, filename, files, opened, varsA, varsPath, varsB, varsChain, varsGate>>

\* with open(filename, 'w') as fh: fh.write(...): the file holds this record
WriteFile(written, name, record) == DictSet(written, name, record)

\* lines 409-420: one turn of the loop over namespace.items(), which is the
\* dict the parse filled; it raises KeyError for a method without a name and
\* TypeError when no namespace item came before the method
split_item ==
    /\ conv = "split"
    /\ key_idx <= Len(keys)
    /\ LET key == keys[key_idx]
           item == items[key]
           next == IF key_idx = Len(keys) THEN "done" ELSE "split"
       IN  IF item.type = "namespace"
           THEN /\ namespace_name' = Some(SubSeq(key, Len("namespace") + 1, Len(key)))
                /\ conv' = next
                /\ UNCHANGED <<filename, files, opened>>
           ELSE IF item.type # "method" \/ item.name = Some("&")
           THEN /\ conv' = (IF item.type = "method" /\ ~IsSet(item.name) THEN "failed" ELSE next)
                /\ UNCHANGED <<namespace_name, filename, files, opened>>
           ELSE IF ~IsSet(item.name) \/ ~IsSet(namespace_name)
           THEN /\ conv' = "failed"
                /\ UNCHANGED <<namespace_name, filename, files, opened>>
           ELSE LET joined == PathJoin(PathJoin("api", Val(namespace_name)),
                                       camel2dashed(Val(item.name)) \o ".yml")
                IN  /\ filename' = Some(joined)
                    /\ files' = WriteFile(files, joined, <<item>>)
                    /\ opened' = Append(opened, joined)
                    /\ conv' = next
                    /\ UNCHANGED namespace_name
    /\ key_idx' = key_idx + 1
    /\ UNCHANGED <<conv_path, varsA, varsPath, varsB, varsChain, varsGate>>

\* lines 421-422: another namespace file writes nothing
convert_namespace ==
    /\ conv = "parse"
    /\ parse = "done"
    /\ ~Contains(conv_path, "/namespacematcher")
    /\ Contains(conv_path, "/namespace")
    /\ conv' = "done"
    /\ UNCHANGED <<conv_path, filename, key_idx, namespace_name, files, opened,
                   varsA, varsPath, varsB, varsChain, varsGate>>

\* lines 423-432: any other file is written whole to its translated path,
\* unless that path is one of the two suppressed ones
convert_compound ==
    /\ conv = "parse"
    /\ parse = "done"
    /\ ~Contains(conv_path, "/namespace")
    /\ LET translated == translate_path(conv_path)
       IN  /\ filename' = Some(translated)
           /\ IF translated \in SuppressedFilenames
              THEN UNCHANGED <<files, opened>>
              ELSE /\ files' = WriteFile(files, translated, Values(keys, items))
                   /\ opened' = Append(opened, translated)
    /\ conv' = "done"
    /\ UNCHANGED <<conv_path, key_idx, namespace_name, varsA, varsPath, varsB,
                   varsChain, varsGate>>

NextConv ==
    \/ startElement
    \/ endElement
    \/ characters
    \/ convert_matcher
    \/ split_item
    \/ convert_namespace
    \/ convert_compound

SpecConv == InitConv /\ [][NextConv]_vars

\* the function members of the file whose item is named, and not named &
SplitMembers ==
    {i \in 1..Len(doc.members) :
        /\ doc.members[i].kind = "function"
        /\ doc.members[i].id \in DOMAIN items
        /\ IsSet(items[doc.members[i].id].name)
        /\ items[doc.members[i].id].name # Some("&")}

\* C11: after convert of a namespacematcher file every function member not
\* named & has a file of its own that holds its record, two members never
\* share a file and there are as many files as such members; convert of
\* another namespace file writes no file.
C11_OneFilePerFunction ==
    conv = "done" =>
        /\ Contains(conv_path, "/namespacematcher") =>
              /\ \A i \in SplitMembers :
                    \E f \in DOMAIN files : files[f] = <<items[doc.members[i].id]>>
              /\ Cardinality(DOMAIN files) = Cardinality(SplitMembers)
              /\ Len(opened) = Cardinality(DOMAIN files)
        /\ (Contains(conv_path, "/namespace") /\ ~Contains(conv_path, "/namespacematcher")) =>
              files = <<>>

(***************************************************************************)
(* The quality gate: count_cppcheck_analysis.py                            *)
(* The report is missing (<<>>) or holds the severity attributes of its    *)
(* errors/error elements, in document order. What main returned is <<>>    *)
(* for None and <<n>> for the int n.                                       *)
(***************************************************************************)
MaxEntries == 3
MaxThreshold == 2

ErrorType ==
    {"ERROR", "WARNING", "STYLE", "PERFORMANCE", "PORTABILITY", "INFORMATION", "UNKNOWN"}

\* classify_error(error), by error.attrib['severity']
classify_error(severity) ==
    CASE severity = "error" -> "ERROR"
      [] severity = "warning" -> "WARNING"
      [] severity = "style" -> "STYLE"
      [] severity = "performance" -> "PERFORMANCE"
      [] severity = "portability" -> "PORTABILITY"
      [] severity = "information" -> "INFORMATION"
      [] OTHER -> "UNKNOWN"

\* count_error_types(root): the loop over root.findall('errors/error')
RECURSIVE count_error_types(_)
count_error_types(errors) ==
    IF errors = <<>> THEN [t \in ErrorType |-> 0]
    ELSE LET error_types == count_error_types(SubSeq(errors, 1, Len(errors) - 1))
             classified_error == classify_error(errors[Len(errors)])
         IN  [error_types EXCEPT ![classified_error] = @ + 1]

\* a gate that fails a count equal to its threshold
Exceeds_AtThreshold(count, threshold) == count >= threshold

\* lines 67 and 70: error_types[...] > args.<...>_threshold
Exceeds(count, threshold) == count > threshold

\* lines 63-84 of main: the exit code for the errors of a report
quality_gate(errors, errors_allowed, warnings_allowed) ==
    LET error_types == count_error_types(errors)
        code1 == IF Exceeds(error_types["ERROR"], errors_allowed) THEN 1 ELSE 0
    IN  IF Exceeds(error_types["WARNING"], warnings_allowed) THEN 1 ELSE code1

Severities == {"error", "warning", "style", "none"}

Reports == {None} \cup {Some(errors) : errors \in Lists(Severities, MaxEntries)}

InitGate ==
    /\ IdlePath
    /\ IdleB
    /\ IdleA
    /\ IdleConv
    /\ IdleChain
    /\ report \in Reports
    /\ error_threshold \in 0..MaxThreshold
    /\ warning_threshold \in 0..MaxThreshold
    /\ exit_code = None

\* main(): returns None when the file does not exist, else the exit code
main ==
    /\ exit_code = None
    /\ exit_code' = Some(IF ~IsSet(report) THEN None
                         ELSE Some(quality_gate(Val(report), error_threshold,
                                                warning_threshold)))
    /\ UNCHANGED <<report, error_threshold, warning_threshold,
                   varsPath, varsB, varsA, varsConv, varsChain>>

NextGate == main

SpecGate == InitGate /\ [][NextGate]_vars

\* the number of entries of a severity in the report
NumberOf(severity) ==
    Cardinality({i \in 1..Len(Val(report)) : Val(report)[i] = severity})

\* C12: when the report exists, main returns 0 exactly when the entries of
\* severity error are at most the error threshold and those of severity
\* warning at most the warning threshold, and 1 otherwise; the result does
\* not depend on the entries of any other severity.
C12_GateByThresholds ==
    (IsSet(exit_code) /\ IsSet(report)) =>
        Val(exit_code) =
            Some(IF /\ NumberOf("error") <= error_threshold
                    /\ NumberOf("warning") <= warning_threshold
                 THEN 0 ELSE 1)

\* both counts equal to their thresholds, next to an entry of another severity
C12_Witness ==
    /\ report = Some(<<"error", "style", "warning">>)
    /\ error_threshold = 1
    /\ warning_threshold = 1
    /\ exit_code = Some(Some(0))

(***************************************************************************)
(* TagHandler.add_content on a chain of live nodes                         *)
(* chain[1] is the root and the parent of chain[i] is chain[i - 1]; a call *)
(* is made on any node of the chain, the nodes above it being its          *)
(* descendants.                                                            *)
(***************************************************************************)
MaxChain == 3
MaxText == 3

Buffers == {None, Some(""), Some("a")}
Contents == {"", "x", "yz"}

Chains ==
    UNION {{[i \in 1..k |-> [create(Plain("para"), i - 1, i) EXCEPT !.text = texts[i]]] :
              texts \in [1..k -> Buffers]} : k \in 1..MaxChain}

InitChain ==
    /\ IdlePath
    /\ IdleB
    /\ IdleA
    /\ IdleConv
    /\ IdleGate
    /\ chain \in Chains
    /\ ac_call = None

\* node.add_content(content) for a node of the chain
AddContent ==
    \E n \in 1..Len(chain), content \in Contents :
        /\ \A j \in 1..Len(chain) :
              IsSet(chain[j].text) => Len(Val(chain[j].text)) + Len(content) <= MaxText
        /\ chain' = add_content(chain, n, content)
        /\ ac_call' = Some([n |-> n, content |-> content, before |-> chain])
        /\ UNCHANGED <<varsPath, varsB, varsA, varsConv, varsGate>>

NextChain == AddContent

SpecChain == InitChain /\ [][NextChain]_vars

\* C13: add_content called on node n appends the content to the buffer of
\* the nearest node from n to the root whose buffer is set and changes no
\* other node; when no node from n to the root has a buffer, nothing
\* changes.
C13_NearestBufferGetsContent ==
    IsSet(ac_call) =>
        LET n == Val(ac_call).n
            content == Val(ac_call).content
            before == Val(ac_call).before
            owners == {j \in 1..n : IsSet(before[j].text)}
        IN  /\ Len(chain) = Len(before)
            /\ IF owners = {} THEN chain = before
               ELSE LET j == CHOOSE x \in owners : \A y \in owners : y <= x
                    IN  /\ chain[j].text = Some(Val(before[j].text) \o content)
                        /\ chain = [before EXCEPT ![j].text = chain[j].text]

\* a call on a node without a buffer, below a descendant and above two
\* ancestors that all have one
C13_Witness ==
    /\ IsSet(ac_call)
    /\ Val(ac_call).n = 2
    /\ Val(ac_call).content = "x"
    /\ Len(chain) = 3
    /\ Val(ac_call).before[3].text = Some("")
    /\ Val(ac_call).before[2].text = None
    /\ Val(ac_call).before[1].text = Some("a")
    /\ chain[1].text = Some("ax")
    /\ chain[3].text = Some("")

(***************************************************************************)
(* Stage A: the dispatcher's stack                                         *)
(***************************************************************************)
\* the first k events of a file read as a well-nested sequence: the start
\* events of the elements still open, outermost first, and the hooks due,
\* each with the start event of the element it belongs to
RECURSIVE Nesting(_, _)
Nesting(events, k) ==
    IF k = 0 THEN [open |-> <<>>, hooks |-> <<>>]
    ELSE LET before == Nesting(events, k - 1)
             top == before.open[Len(before.open)]
         IN  CASE events[k].ev = "start" ->
                    [open |-> Append(before.open, k),
                     hooks |-> Append(before.hooks, <<"enter", k>>)]
               [] events[k].ev = "chars" ->
                    [open |-> before.open,
                     hooks |-> Append(before.hooks, <<"characters", top>>)]
               [] events[k].ev = "end" ->
                    [open |-> SubSeq(before.open, 1, Len(before.open) - 1),
                     hooks |-> Append(before.hooks, <<"leave", top>>)]

\* C14: as long as no handler has raised, the stack holds one node per open
\* element, in nesting order, each the node created for that element, with
\* the node beneath it as parent (None for the bottom one); every element's
\* enter has run once before the hooks of its descendants and its leave
\* once after them, on the node created for it; the stack is empty when
\* the root element has closed.
C14_StackMirrorsOpenElements ==
    parse # "failed" =>
        LET events == DocEvents(doc)
            nesting == Nesting(events, pos - 1)
        IN  /\ Len(stack) = Len(nesting.open)
            /\ \A n \in 1..Len(stack) :
                  /\ stack[n].obj = nesting.open[n]
                  /\ stack[n].tag = events[nesting.open[n]].tag
                  /\ stack[n].parent = n - 1
            /\ calls = nesting.hooks
            /\ parse = "done" => stack = <<>>

\* inside the name of a member, after the compoundname element has closed
C14_Witness ==
    /\ parse = "parsing"
    /\ Len(stack) = 5
    /\ stack[2].tag = "compounddef"
    /\ stack[5].tag = "name"
    /\ stack[5].parent = 4
    /\ <<"leave", 3>> \in Range(calls)
    /\ calls[Len(calls)] = <<"characters", stack[5].obj>>

(***************************************************************************)
(* Stage A: names delivered late or in several characters events           *)
(***************************************************************************)
\* C15: when the name event of a member is processed while the item of the
\* enclosing compound has no fullName yet, the member's fullName stays
\* unset, no handler raises, and the member is registered in the
\* compound's children and gets its name.
C15_NameBeforeCompoundName ==
    \A i \in 1..Len(doc.members) :
        LET m == doc.members[i]
        IN  (/\ doc.id \in DOMAIN items
             /\ ~IsSet(items[doc.id].fullName)
             /\ m.id \in DOMAIN items
             /\ IsSet(items[m.id].name)) =>
                /\ parse # "failed"
                /\ ~IsSet(items[m.id].fullName)
                /\ IsSet(items[doc.id].children)
                /\ m.id \in Range(Val(items[doc.id].children))

\* C16: at the end of Stage A the name of the compound and of every
\* materialized member is the whole character content of its compoundname
\* or name element, in however many characters events it came.
C16_NameIsWholeText ==
    parse = "done" =>
        /\ (doc.id \in DOMAIN items /\ doc.name # <<>>) =>
              items[doc.id].name = Some(Join(doc.name))
        /\ \A i \in 1..Len(doc.members) :
              LET m == doc.members[i]
              IN  (m.id \in DOMAIN items /\ m.name # <<>>) =>
                      items[m.id].name = Some(Join(m.name))

\* the ids of the members that have a name, in document order
NamedMembers ==
    LET named == SelectSeq(doc.members, LAMBDA m : m.name # <<>>)
    IN  [i \in 1..Len(named) |-> named[i].id]

\* C17: at the end of Stage A the children of a compound are the uids of
\* its named members, each once, in document order, in however many
\* characters events each name came.
C17_ChildrenOncePerMember ==
    (parse = "done" /\ doc.id \in DOMAIN items) =>
        (IF IsSet(items[doc.id].children) THEN Val(items[doc.id].children) ELSE <<>>)
            = NamedMembers

(***************************************************************************)
(* Stage A on the text of a file: signatures and paragraphs                *)
(***************************************************************************)
MaxPieces == 2

\* definition and argsstring of a member, whole or split at an entity
Definitions == {<<"int f">>, <<"T< ", "int", " > f">>, <<" int", " f ">>}
ArgsStrings == {<<>>, <<"(A x)">>, <<"(A ", "&", "x) ">>}

SyntaxDocs ==
    {[BaseDoc EXCEPT !.members =
          <<[Member(1, k, <<"f">>, <<>>) EXCEPT !.definition = d, !.argsstring = a]>>] :
        k \in {"function", "variable"}, d \in Definitions, a \in ArgsStrings}

RefB == RefTo("classB", "B")

\* the pieces a paragraph is made of
Pieces ==
    {Text("NOTE: a"), Text("  TIP: t"), Text(" x "), Bold("b"), RefB,
     Code(<<RefB>>), Code(<<Text("c"), RefB>>), Code(<<RefB, Text("d")>>), Code(<<Text("c")>>),
     Code(<<RefB, RefB>>)}

Paragraphs == Lists(Pieces, MaxPieces)

ParagraphLists ==
    {<<para>> : para \in Paragraphs}
        \cup {<<<<Text("NOTE: a")>>, <<Text("WARNING: w")>>>>,
              <<<<Text(" x ")>>, <<Code(<<RefB>>)>>>>}

\* the paragraphs of the detailed description of the class, or of a member
ParagraphDocs ==
    {[BaseDoc EXCEPT !.descriptions =
          <<[tag |-> "detaileddescription", text |-> <<>>, bold |-> <<>>, paras |-> ps]>>] :
        ps \in ParagraphLists}

TextDocs == SyntaxDocs \cup ParagraphDocs

InitText ==
    /\ IdlePath
    /\ IdleB
    /\ IdleRest
    /\ doc \in TextDocs
    /\ StartOfParse

NextText == startElement \/ endElement \/ characters

SpecText == InitText /\ [][NextText]_vars

\* C18: at the end of Stage A the syntax content of a materialized member
\* is trim(D) + trim(A), D the whole text of its definition element and A
\* that of its argsstring element, in however many characters events.
C18_SyntaxIsTrimmedTexts ==
    parse = "done" =>
        \A i \in 1..Len(doc.members) :
            LET m == doc.members[i]
            IN  (m.id \in DOMAIN items /\ (m.definition # <<>> \/ m.argsstring # <<>>)) =>
                    items[m.id].syntax =
                        Some(Strip(Join(m.definition)) \o Strip(Join(m.argsstring)))

\* the number of places where pat occurs in s
Occurrences(s, pat) == Cardinality({i \in 1..Len(s) : MatchesAt(s, pat, i)})

\* the text of a paragraph, inline children included
RECURSIVE PieceText(_)
PieceText(p) ==
    IF p.k = "code" THEN Join([i \in 1..Len(p.inner) |-> PieceText(p.inner[i])])
    ELSE p.s

ParaText(para) == Join([i \in 1..Len(para) |-> PieceText(para[i])])

\* s begins, after blanks, with one of the markers and a colon
BeginsWithMarker(s) ==
    \E k \in 0..Len(s), m \in 1..Len(AdmonitionMarkers) :
        /\ \A i \in 1..k : Char(s, i) = " "
        /\ MatchesAt(s, AdmonitionMarkers[m] \o ":", k + 1)

\* the paragraphs of the detailed description of the compound
ParasOfDoc ==
    IF doc.descriptions = <<>> THEN <<>> ELSE doc.descriptions[1].paras

\* C19: a paragraph gets at most one admonition header, and only when its
\* text begins with a marker: a marker later in the paragraph, also at the
\* start of a later characters event, is passed through unchanged. For the
\* description of the compound: it has as many headers at most as it has
\* paragraphs that begin with a marker.
C19_HeaderOnlyAtParagraphStart ==
    (parse = "done" /\ doc.id \in DOMAIN items /\ IsSet(items[doc.id].description)) =>
        Occurrences(Val(items[doc.id].description), "[!")
            <= Cardinality({i \in 1..Len(ParasOfDoc) : BeginsWithMarker(ParaText(ParasOfDoc[i]))})

\* the last event closed a ref that is the first child of a computeroutput
\* and holds one text; the description's node is the owner of the buffer
AfterFirstRefOfSpan ==
    /\ parse # "failed"
    /\ pos >= 6
    /\ Len(stack) >= 3
    /\ stack[3].tag = "detaileddescription"
    /\ LET events == DocEvents(doc)
       IN  /\ events[pos - 1].ev = "end"
           /\ events[pos - 2].ev = "chars"
           /\ events[pos - 3].ev = "start" /\ events[pos - 3].tag = "ref"
           /\ events[pos - 4].ev = "start" /\ events[pos - 4].tag = "computeroutput"

\* s ends with tail
EndsWith(s, tail) == MatchesAt(s, tail, Len(s) - Len(tail) + 1)

\* the text of the ref closed last, and its refid
LinkText == DocEvents(doc)[pos - 2].content
LinkId == Val(DocEvents(doc)[pos - 3].refid)

\* C20 as stated: a ref with text T and id R that is the first child of an
\* inline code span leaves, in the buffer of the owning ancestor, the
\* span's backtick, then [, T, a closing backtick and ](xref:R).
C20_BracketAfterBacktick ==
    AfterFirstRefOfSpan =>
        EndsWith(Val(stack[3].text),
                 Backtick \o "[" \o LinkText \o Backtick \o "](xref:" \o LinkId \o ")")

\* C20, amended: the opening bracket is placed immediately before the
\* span's leading backtick, so the buffer ends with [, a backtick, T, a
\* closing backtick and ](xref:R), and the span is marked as closed.
C20_BracketBeforeBacktick ==
    AfterFirstRefOfSpan =>
        /\ EndsWith(Val(stack[3].text),
                    "[" \o Backtick \o LinkText \o Backtick \o "](xref:" \o LinkId \o ")")
        /\ stack[Len(stack)].tag = "computeroutput"
        /\ stack[Len(stack)].is_closed = Some(TRUE)

\* a span that holds only the link, after a text of the paragraph
C20_Witness ==
    /\ AfterFirstRefOfSpan
    /\ Len(stack) = 5
    /\ stack[3].text = Some(" x [" \o Backtick \o "B" \o Backtick \o "](xref:classB)")

\* the inline code spans of a paragraph
CodeSpans(para) == {i \in 1..Len(para) : para[i].k = "code"}

\* the inline code spans of the paragraphs of the description
NumberOfSpans ==
    LET count[i \in 0..Len(ParasOfDoc)] ==
            IF i = 0 THEN 0 ELSE count[i - 1] + Cardinality(CodeSpans(ParasOfDoc[i]))
    IN  count[Len(ParasOfDoc)]

\* C21: every inline code span is terminated exactly once: with no link,
\* one link or several links in it, and text before or after them, the
\* span gives the owning buffer one opening and one closing backtick. For
\* the description of the compound, whose texts hold no backtick of their
\* own: it holds two backticks for each span of its paragraphs.
C21_TwoBackticksPerSpan ==
    (parse = "done" /\ doc.id \in DOMAIN items /\ IsSet(items[doc.id].description)) =>
        Occurrences(Val(items[doc.id].description), Backtick) = 2 * NumberOfSpans

(***************************************************************************)
(* convert: the suppressed filenames                                       *)
(***************************************************************************)
\* s holds an ASCII capital
HasUpper(s) == \E i \in 1..Len(s) : IsUpper(Char(s, i))

\* convert has finished with a file that is not a namespace file
CompoundConverted ==
    /\ conv = "done"
    /\ ~Contains(conv_path, "/namespace")

\* C22: the filename translate_path gives holds no underscore and no ASCII
\* capital, so it is never the second suppressed literal, the one of
\* ValueSetter: convert leaves a file unwritten only when its filename is
\* api/std/optional.yml, and any other file is written.
C22_OnlyOptionalIsSuppressed ==
    CompoundConverted =>
        /\ IsSet(filename)
        /\ ~Contains(Val(filename), "_")
        /\ ~HasUpper(Val(filename))
        /\ Val(filename) \in SuppressedFilenames => Val(filename) = "api/std/optional.yml"
        /\ (opened = <<>>) <=> (Val(filename) = "api/std/optional.yml")
        /\ opened # <<>> => opened = <<Val(filename)>>

\* the file doxygen names after the suppressed specialization is written
C22_Witness ==
    /\ CompoundConverted
    /\ conv_path = "doxygen/xml/classValueSetter_3_01std_optional_3_01T_01_4_01_4.xml"
    /\ opened = <<"api/value-setter/3/01std/optional/3/01-t/01/4/01/4.yml">>

====
